---------------------------- MODULE Spec2Model ----------------------------
(***************************************************************************)
(* A model of the semi-Markov engine of chadhmm: BaseHSMM (forward,        *)
(* backward, posteriors, EM driver, scoring, decoding, parameter setters)  *)
(* and ConvergenceHandler / the sampling helpers of utils.py.              *)
(*                                                                         *)
(* Numbers.  Every tensor of the program holds float64 values.  The model  *)
(* keeps them exact:                                                       *)
(*   - a LINEAR number is an extended rational [n |-> num, d |-> den],     *)
(*     d > 0 in lowest terms, d = 0 for the IEEE specials (n = 0 NaN,      *)
(*     n = 1 +inf, n = -1 -inf);                                           *)
(*   - a LOG-domain number x (a logit, a log-likelihood) is held as the    *)
(*     linear number exp(x): -inf is 0, 0 is 1, NaN is NaN.  Log-domain    *)
(*     addition is then RMul, subtraction RDiv, logsumexp/logaddexp RAdd,  *)
(*     and torch's exp()/log() are the operators Exp and Log below (Log    *)
(*     of a negative number is NaN, as in torch).                          *)
(* Rounding of float64 is not modelled.                                    *)
(***************************************************************************)
EXTENDS Integers, Sequences, FiniteSets, TLC

----------------------------------------------------------------------------
(* Extended rationals *)

Abs(x) == IF x < 0 THEN -x ELSE x

Sign(x) == IF x < 0 THEN -1 ELSE IF x > 0 THEN 1 ELSE 0

RECURSIVE Gcd(_, _)
Gcd(a, b) == IF b = 0 THEN a ELSE Gcd(b, a % b)

\* the rational n/d (d # 0) in lowest terms with a positive denominator
R(n, d) ==
    LET g == Gcd(Abs(n), Abs(d))
        s == IF d < 0 THEN -1 ELSE 1
    IN  [n |-> s * (n \div g), d |-> s * (d \div g)]

NaN == [n |-> 0, d |-> 0]
PInf == [n |-> 1, d |-> 0]
NInf == [n |-> -1, d |-> 0]
Zero == [n |-> 0, d |-> 1]
One == [n |-> 1, d |-> 1]

IsNaN(a) == a.d = 0 /\ a.n = 0
IsInf(a) == a.d = 0 /\ a.n # 0
IsFinite(a) == a.d # 0

RNeg(a) == [n |-> -a.n, d |-> a.d]

\* IEEE addition: NaN propagates, inf + (-inf) = NaN
RAdd(a, b) ==
    IF IsNaN(a) \/ IsNaN(b) THEN NaN
    ELSE IF IsInf(a) /\ IsInf(b) THEN (IF a.n = b.n THEN a ELSE NaN)
    ELSE IF IsInf(a) THEN a
    ELSE IF IsInf(b) THEN b
    ELSE LET g == Gcd(a.d, b.d)
         IN  R(a.n * (b.d \div g) + b.n * (a.d \div g), (a.d \div g) * b.d)

RSub(a, b) == RAdd(a, RNeg(b))

\* IEEE multiplication: 0 * inf = NaN
RMul(a, b) ==
    IF IsNaN(a) \/ IsNaN(b) THEN NaN
    ELSE IF IsInf(a) \/ IsInf(b)
         THEN (IF a.n = 0 \/ b.n = 0 THEN NaN
               ELSE [n |-> Sign(a.n) * Sign(b.n), d |-> 0])
    ELSE LET g1 == Gcd(Abs(a.n), b.d)
             g2 == Gcd(Abs(b.n), a.d)
         IN  IF a.n = 0 \/ b.n = 0 THEN Zero
             ELSE [n |-> (a.n \div g1) * (b.n \div g2),
                   d |-> (a.d \div g2) * (b.d \div g1)]

\* IEEE division: 0/0 = inf/inf = NaN, x/0 = +-inf
RDiv(a, b) ==
    IF IsNaN(a) \/ IsNaN(b) THEN NaN
    ELSE IF IsInf(b) THEN (IF IsInf(a) THEN NaN ELSE Zero)
    ELSE IF b.n = 0
         THEN (IF a.n = 0 THEN NaN ELSE [n |-> Sign(a.n), d |-> 0])
    ELSE IF IsInf(a) THEN [n |-> Sign(a.n) * Sign(b.n), d |-> 0]
    ELSE RMul(a, R(b.d, b.n))

\* IEEE <: false as soon as one side is NaN
RLt(a, b) ==
    IF IsNaN(a) \/ IsNaN(b) THEN FALSE
    ELSE IF IsInf(a) THEN a.n < 0 /\ b # a
    ELSE IF IsInf(b) THEN b.n > 0
    ELSE LET g == Gcd(a.d, b.d)
         IN  a.n * (b.d \div g) < b.n * (a.d \div g)

RLeq(a, b) == RLt(a, b) \/ (~IsNaN(a) /\ a = b)

\* torch.exp of a log-domain number gives the linear number it stands for
Exp(x) == x

\* torch.log of a linear number: NaN below 0, -inf at 0
Log(v) == IF IsNaN(v) \/ v.n < 0 THEN NaN ELSE v


----------------------------------------------------------------------------
(* Tensor helpers.  A vector is a sequence, a matrix a sequence of rows, a *)
(* 3-d tensor a sequence (over time) of matrices; indices start at 1, so   *)
(* Python's index i is i+1 here and duration slot d = 0 is column 1.       *)

\* the sequence <<F(1), .., F(n)>>; combining it with the empty function makes
\* the model checker compute its entries once instead of at every use
Vec(n, F(_)) == [i \in 1..n |-> F(i)] @@ <<>>

RECURSIVE SumSeq(_)
\* sum of a sequence of linear numbers; the empty sum is 0
SumSeq(v) == IF Len(v) = 0 THEN Zero ELSE RAdd(v[1], SumSeq(Tail(v)))

RECURSIVE ProdSeq(_)
\* product of a sequence of linear numbers; the empty product is 1
ProdSeq(v) == IF Len(v) = 0 THEN One ELSE RMul(v[1], ProdSeq(Tail(v)))

RECURSIVE Concat(_)
\* torch.cat along dimension 0 of a list of tensors
Concat(ts) == IF Len(ts) = 0 THEN <<>> ELSE ts[1] \o Concat(Tail(ts))

\* tensor.logsumexp over a whole vector, in the log-domain representation
LogSumExp(v) == SumSeq(v)

\* all entries of a matrix, row after row
Flatten(m) == Concat(m)

\* column c of a matrix
Col(m, c) == Vec(Len(m), LAMBDA r : m[r][c])

\* torch.log and tensor.exp of every entry
LogVec(v) == Vec(Len(v), LAMBDA i : Log(v[i]))
LogMat(m) == Vec(Len(m), LAMBDA r : LogVec(m[r]))
ExpVec(v) == Vec(Len(v), LAMBDA i : Exp(v[i]))
ExpMat(m) == Vec(Len(m), LAMBDA r : ExpVec(m[r]))
ExpMat3(x) == Vec(Len(x), LAMBDA t : ExpMat(x[t]))

\* utils.log_normalize(matrix, dim)
\*   matrix - matrix.logsumexp(dim, True), for the shapes BaseHSMM passes:
\* a 0-d tensor over dim 0
log_normalize_scalar(x) == RDiv(x, x)

\* a vector over dim 0
log_normalize_vec(v) == Vec(Len(v), LAMBDA i : RDiv(v[i], LogSumExp(v)))

\* a matrix over dim 1 (the default): every row by its own sum
log_normalize_rows(m) == Vec(Len(m), LAMBDA r : log_normalize_vec(m[r]))

\* a matrix over dim 0: every column by its own sum
log_normalize_cols(m) ==
    Vec(Len(m), LAMBDA r : Vec(Len(m[r]), LAMBDA c : RDiv(m[r][c], LogSumExp(Col(m, c)))))

\* a 3-d tensor over dims (1,2): every time slice by the sum of all its entries
log_normalize_12(x) ==
    Vec(Len(x), LAMBDA t :
        Vec(Len(x[t]), LAMBDA r :
            Vec(Len(x[t][r]), LAMBDA c : RDiv(x[t][r][c], LogSumExp(Flatten(x[t]))))))

\* a 3-d tensor over dim 1 (the default): for every time and every last
\* index, over the middle axis
log_normalize_dim1(x) == Vec(Len(x), LAMBDA t : log_normalize_cols(x[t]))

----------------------------------------------------------------------------
(* The model instance and its inputs *)

\* BaseHSMM.n_states: the number of hidden states of the modelled instance
n_states == 2

\* BaseHSMM.max_duration: the number of duration slots of the modelled instance
max_duration == 2

\* Dirichlet samples are drawn from the vectors k/Grain, every k >= 1
Grain == 4

States == 1..n_states
Durations == 1..max_duration
\* the observed symbols of the modelled emission plugin
Symbols == {1, 2}

RECURSIVE SumInts(_)
SumInts(v) == IF Len(v) = 0 THEN 0 ELSE v[1] + SumInts(Tail(v))

\* torch.distributions.Dirichlet(alphas).sample() for one row of n entries:
\* strictly positive probabilities that sum to 1
DirichletSamples(n) ==
    { Vec(n, LAMBDA i : R(k[i], Grain)) :
        k \in { w \in [1..n -> 1..(Grain - 1)] : SumInts(w) = Grain } }

\* utils.sample_probs(prior, target_size): the values it may return for a
\* vector of n entries ...
sample_probs_vec(n) == DirichletSamples(n)

\* ... and for a matrix of r rows and n columns
sample_probs_mat(r, n) == [1..r -> DirichletSamples(n)]

\* probs.fill_diagonal_(0); probs /= probs.sum(dim=-1, keepdim=True)
SemiFill(probs) ==
    LET z == Vec(Len(probs), LAMBDA j :
                Vec(Len(probs[j]), LAMBDA k : IF j = k THEN Zero ELSE probs[j][k]))
    IN  Vec(Len(z), LAMBDA j : Vec(Len(z[j]), LAMBDA k : RDiv(z[j][k], SumSeq(z[j]))))

\* utils.sample_A(prior, n_states, 'semi'), applied to the Dirichlet sample
sample_A(probs) == SemiFill(probs)

\* utils.is_valid_A(logits, 'semi'): torch.all(logits.exp().diagonal() == 0)
is_valid_A(logits) == \A j \in 1..Len(logits) : Exp(logits[j][j]) = Zero

\* a tensor together with its number of dimensions
Tensor(ndim, val) == [ndim |-> ndim, val |-> val]

HasNaNVec(v) == \E i \in 1..Len(v) : IsNaN(v[i])

\* torch.distributions.Categorical(logits=t), as called by BaseHSMM:
\* rejects a tensor of fewer than one dimension, normalises over the last
\* dimension (logits - logits.logsumexp(-1, True)) and, validating its
\* arguments, rejects a NaN.  ok = FALSE stands for the ValueError raised.
Categorical(t) ==
    IF t.ndim < 1 THEN [ok |-> FALSE, logits |-> t.val]
    ELSE LET l == IF t.ndim = 1 THEN log_normalize_vec(t.val)
                  ELSE log_normalize_rows(t.val)
             bad == IF t.ndim = 1 THEN HasNaNVec(l)
                    ELSE \E r \in 1..Len(l) : HasNaNVec(l[r])
         IN  [ok |-> ~bad, logits |-> l]

(* The emission plugin.  Its code is not part of the files at hand; it is   *)
(* modelled from its interface: a parameter set (here a categorical matrix *)
(* B[state][symbol]) and logProb(x) giving, per time step, one likelihood  *)
(* per state.                                                              *)
EmissionPdfs ==
    { << <<R(1, 2), R(1, 2)>>, <<R(1, 4), R(3, 4)>> >>,
      << <<R(3, 4), R(1, 4)>>, <<R(1, 2), R(1, 2)>> >> }

\* pdf.log_prob of the plugin on the samples x: shape [time, states]
log_prob(pdf, x) == Vec(Len(x), LAMBDA t : Vec(n_states, LAMBDA j : pdf[j][x[t]]))

\* tensor.squeeze() of a [time, states] matrix, n_states >= 2: a single time
\* step leaves the 1-d vector of the states
Squeeze(m) == IF Len(m) = 1 THEN Tensor(1, m[1]) ELSE Tensor(2, m)

\* BaseHSMM.map_emission(x) under the emission parameters pdf
map_emission(pdf, x) == Squeeze(log_prob(pdf, x))

\* seq_probs as the lattice recursions read it, one row of n_states entries
\* per time step.  Of a 1-d seq_probs (one time step) _forward reads
\* seq_probs[0], the scalar of the first state, and broadcasts it over the
\* states; _xi and _eta add seq_probs[:-1] to tensors with no time step.
SeqProbs(e) ==
    IF e.ndim = 1 THEN << Vec(n_states, LAMBDA j : e.val[1]) >> ELSE e.val

\* torch.nested.nested_tensor(list): the tensors must have the same number
\* of dimensions
nested_tensor_ok(ts) == \A i \in 1..Len(ts) : ts[i].ndim = ts[1].ndim

----------------------------------------------------------------------------
(* The forward-backward engine.  p is the parameter record [pi, A, D, pdf] *)
(* (self.pi, self.A, self.D are its logits), e one sequence's emission     *)
(* log-probabilities (seq_probs), T its length.                            *)

\* alpha_trans_sum of _forward at step t, from the previous slice prev
AlphaTransSum(p, e, prev, t) ==
    Vec(n_states, LAMBDA j :
        RMul(LogSumExp(Vec(n_states, LAMBDA k : RMul(prev[k][1], p.A[k][j]))), e[t][j]))

\* log_alpha[0] = self.D + self.pi.reshape(-1,1) + seq_probs[0].unsqueeze(-1)
AlphaInit(p, e) ==
    Vec(n_states, LAMBDA j : Vec(max_duration, LAMBDA d : RMul(RMul(p.D[j][d], p.pi[j]), e[1][j])))

\* log_alpha[t] for t >= 1: the last slot, then the slots before it
AlphaStep(p, e, prev, t) ==
    LET ts == AlphaTransSum(p, e, prev, t)
    IN  Vec(n_states, LAMBDA j :
            Vec(max_duration, LAMBDA d :
                IF d = max_duration
                THEN RMul(ts[j], p.D[j][max_duration])
                ELSE RAdd(RMul(prev[j][d + 1], e[t][j]), RMul(ts[j], p.D[j][d]))))

RECURSIVE ForwardFrom(_, _, _, _)
\* the loop of _forward: acc holds log_alpha[0..t-2], the next slice is t
ForwardFrom(p, e, acc, t) ==
    IF t > Len(e) THEN acc
    ELSE ForwardFrom(p, e, Append(acc, AlphaStep(p, e, acc[t - 1], t)), t + 1)

\* BaseHSMM._forward for one sequence
ForwardSeq(p, e) == ForwardFrom(p, e, <<AlphaInit(p, e)>>, 2)

\* BaseHSMM._forward: one lattice per sequence of the batch
Forward(p, X) ==
    Vec(Len(X.log_probs), LAMBDA i : ForwardSeq(p, SeqProbs(X.log_probs[i])))

\* log_beta[t] of _backward from the slice nxt = log_beta[t+1] (0-based t is
\* t-1 here, so seq_probs[t+1] is e[t + 1])
BetaStep(p, e, nxt, t) ==
    LET beta_dur_sum ==
            Vec(n_states, LAMBDA j :
                LogSumExp(Vec(max_duration, LAMBDA d : RMul(nxt[j][d], p.D[j][d]))))
    IN  Vec(n_states, LAMBDA j :
            Vec(max_duration, LAMBDA d :
                IF d = 1
                THEN LogSumExp(Vec(n_states, LAMBDA k :
                        RMul(RMul(p.A[j][k], e[t + 1][k]), beta_dur_sum[k])))
                ELSE RMul(nxt[j][d - 1], e[t + 1][j])))

RECURSIVE BackwardFrom(_, _, _, _)
\* the loop of _backward: acc holds log_beta[t+1 ..], the next slice is t
BackwardFrom(p, e, acc, t) ==
    IF t < 1 THEN acc
    ELSE BackwardFrom(p, e, <<BetaStep(p, e, acc[1], t)>> \o acc, t - 1)

\* BaseHSMM._backward for one sequence: zeros (log 1) at the last step
BackwardSeq(p, e) ==
    BackwardFrom(p, e, << Vec(n_states, LAMBDA j : Vec(max_duration, LAMBDA d : One)) >>, Len(e) - 1)

\* BaseHSMM._backward: one lattice per sequence of the batch
Backward(p, X) ==
    Vec(Len(X.log_probs), LAMBDA i : BackwardSeq(p, SeqProbs(X.log_probs[i])))

----------------------------------------------------------------------------
(* The posterior calculator.  alpha, beta are one sequence's lattices.     *)

\* BaseHSMM._xi for one sequence: T-1 slices, each normalised over (1,2)
XiSeq(p, e, alpha, beta) ==
    LET probs_dur_beta ==
            Vec(Len(e) - 1, LAMBDA t :
                Vec(n_states, LAMBDA j :
                    RMul(e[t][j],
                         LogSumExp(Vec(max_duration, LAMBDA d : RMul(p.D[j][d], beta[t + 1][j][d]))))))
        trans_alpha ==
            Vec(Len(e) - 1, LAMBDA t :
                Vec(n_states, LAMBDA j : Vec(n_states, LAMBDA k : RMul(p.A[j][k], alpha[t][j][1]))))
        log_xi ==
            Vec(Len(e) - 1, LAMBDA t :
                Vec(n_states, LAMBDA j :
                    Vec(n_states, LAMBDA k : RMul(trans_alpha[t][j][k], probs_dur_beta[t][j]))))
    IN  log_normalize_12(log_xi)

\* BaseHSMM._eta for one sequence: T-1 slices, log_normalize with its default dim
EtaSeq(p, e, alpha, beta) ==
    LET trans_alpha ==
            Vec(Len(e) - 1, LAMBDA t :
                Vec(n_states, LAMBDA k :
                    LogSumExp(Vec(n_states, LAMBDA j : RMul(alpha[t][j][1], p.A[j][k])))))
        log_eta ==
            Vec(Len(e) - 1, LAMBDA t :
                Vec(n_states, LAMBDA j :
                    Vec(max_duration, LAMBDA d :
                        RMul(RMul(RMul(beta[t + 1][j][d], p.D[j][d]), e[t][j]),
                             trans_alpha[t][j]))))
    IN  log_normalize_dim1(log_eta)

\* a step of _gamma with the flow reversed: what enters j minus what leaves it
GammaStepReversed(xi_real_t, nxt) ==
    Vec(n_states, LAMBDA j :
        RAdd(nxt[j],
             SumSeq(Vec(n_states, LAMBDA k : RSub(xi_real_t[k][j], xi_real_t[j][k])))))

\* gamma[t] = gamma[t+1] + sum(xi_real[t] - xi_real[t].T, dim=1), on linear numbers
GammaStep(xi_real_t, nxt) ==
    Vec(n_states, LAMBDA j :
        RAdd(nxt[j],
             SumSeq(Vec(n_states, LAMBDA k : RSub(xi_real_t[j][k], xi_real_t[k][j])))))

RECURSIVE GammaFrom(_, _, _)
\* the loop of _gamma: acc holds gamma[t+1 ..], the next row is t
GammaFrom(xi_real, acc, t) ==
    IF t < 1 THEN acc
    ELSE GammaFrom(xi_real, <<GammaStep(xi_real[t], acc[1])>> \o acc, t - 1)

\* BaseHSMM._gamma for one sequence: the linear recursion, then gamma.log()
GammaSeq(alpha, xi) ==
    LET T == Len(alpha)
        xi_real == ExpMat3(xi)
        last == log_normalize_vec(Vec(n_states, LAMBDA j : LogSumExp(alpha[T][j])))
    IN  LogMat(GammaFrom(xi_real, <<ExpVec(last)>>, T - 1))

\* BaseHSMM._xi, _eta, _gamma: one tensor per sequence of the batch
Xi(p, X, log_alpha, log_beta) ==
    Vec(Len(X.log_probs), LAMBDA i :
        XiSeq(p, SeqProbs(X.log_probs[i]), log_alpha[i], log_beta[i]))

Eta(p, X, log_alpha, log_beta) ==
    Vec(Len(X.log_probs), LAMBDA i :
        EtaSeq(p, SeqProbs(X.log_probs[i]), log_alpha[i], log_beta[i]))

Gamma(X, log_alpha, log_xi) ==
    Vec(Len(X.log_probs), LAMBDA i : GammaSeq(log_alpha[i], log_xi[i]))

\* lines 343-347 of _compute_posteriors, from the two lattices
PosteriorsFromXiEta(X, log_alpha, log_xi, log_eta) ==
    <<Gamma(X, log_alpha, log_xi), log_xi, log_eta>>

PosteriorsFrom(p, X, log_alpha, log_beta) ==
    PosteriorsFromXiEta(X, log_alpha, Xi(p, X, log_alpha, log_beta),
                        Eta(p, X, log_alpha, log_beta))

\* BaseHSMM._compute_posteriors: the tuple (log_gamma, log_xi, log_eta), each
\* a list with one tensor per sequence
compute_posteriors(p, X) == PosteriorsFrom(p, X, Forward(p, X), Backward(p, X))

\* tensor.logsumexp(1) of a matrix: one value per row
LogSumExp1(m) == Vec(Len(m), LAMBDA r : LogSumExp(m[r]))

\* tensor.logsumexp(0) of a 3-d tensor: the entrywise sum over time of a list
\* of r x c matrices (an empty list sums to -inf everywhere)
LogSumExp0(x, r, c) ==
    Vec(r, LAMBDA j : Vec(c, LAMBDA k : LogSumExp(Vec(Len(x), LAMBDA t : x[t][j][k]))))

\* [tens[0] for tens in t]: the first slice of every tensor of a list
FirstSlices(t) == Vec(Len(t), LAMBDA i : t[i][1])

\* lines 353-363 of _estimate_model_params, from the posteriors it unpacked:
\* the four values new_pi, new_A, new_D, new_pdf
NewParams(log_gamma, log_xi, log_eta, new_pdf) ==
    LET concated_left_gamma == Concat(FirstSlices(log_gamma))
        new_pi == log_normalize_scalar(LogSumExp(concated_left_gamma))
        concated_xi == Concat(log_xi)
        new_A == log_normalize_rows(LogSumExp0(concated_xi, n_states, n_states))
        concated_eta == Concat(log_eta)
        new_D == log_normalize_rows(LogSumExp0(concated_eta, n_states, max_duration))
    IN  [pi |-> Tensor(0, new_pi), A |-> Tensor(2, new_A), D |-> Tensor(2, new_D),
         pdf |-> new_pdf]

UnpackPosteriors(post, new_pdf) == NewParams(post[1], post[2], post[3], new_pdf)

\* BaseHSMM._estimate_model_params up to the construction of the parameter
\* dict.  new_pdf is the emission plugin's answer, an input here.
estimate_model_params(p, X, new_pdf) ==
    UnpackPosteriors(compute_posteriors(p, X), new_pdf)

\* BaseHSMM._compute_log_likelihood: the first slice of every sequence's
\* lattice, concatenated along the state axis, logsumexp over durations
compute_log_likelihood(p, X) == LogSumExp1(Concat(FirstSlices(Forward(p, X))))

----------------------------------------------------------------------------
(* Observations, scoring, decoding *)

RECURSIVE Split(_, _)
\* torch.split(X, lengths): consecutive pieces of the given lengths
Split(x, lens) ==
    IF Len(lens) = 0 THEN <<>>
    ELSE <<SubSeq(x, 1, lens[1])>> \o Split(SubSeq(x, lens[1] + 1, Len(x)), Tail(lens))

\* BaseHSMM.check_constraints: every value lies in the support of the pdf
check_constraints(x) == \A i \in 1..Len(x) : x[i] \in Symbols

\* [self.map_emission(tens) for tens in nested_X]
MapEmissions(pdf, nested_X) ==
    Vec(Len(nested_X), LAMBDA i : map_emission(pdf, nested_X[i]))

\* lines 143-155 of to_observations, from the split sequences and their
\* emission tensors
Observations(X, seq_lengths, nested_X, probs) ==
    IF ~nested_tensor_ok(probs) THEN [ok |-> FALSE, error |-> "RuntimeError"]
    ELSE [ok |-> TRUE,
          sequence |-> X,
          nested_sequence |-> nested_X,
          n_samples |-> Len(X),
          log_probs |-> probs,
          lengths |-> seq_lengths,
          n_sequences |-> Len(seq_lengths)]

SplitObservations(p, X, seq_lengths, nested_X) ==
    Observations(X, seq_lengths, nested_X, MapEmissions(p.pdf, nested_X))

\* to_observations without the assertion on the sum of the lengths: lengths
\* that do not sum to the number of samples reach torch.split, which raises
to_observations_unchecked(p, inp) ==
    IF ~check_constraints(inp.X) THEN [ok |-> FALSE, error |-> "AssertionError"]
    ELSE IF inp.has_lengths /\ SumInts(inp.lengths) # Len(inp.X)
    THEN [ok |-> FALSE, error |-> "RuntimeError"]
    ELSE IF inp.has_lengths
    THEN SplitObservations(p, inp.X, inp.lengths, Split(inp.X, inp.lengths))
    ELSE SplitObservations(p, inp.X, <<Len(inp.X)>>, <<inp.X>>)

\* BaseHSMM.to_observations(X, lengths) under the parameters p.  inp is
\* [X, has_lengths, lengths]; has_lengths = FALSE is lengths=None.  ok = FALSE
\* stands for the exception raised, error is its class.
to_observations(p, inp) ==
    IF ~check_constraints(inp.X) THEN [ok |-> FALSE, error |-> "AssertionError"]
    ELSE IF inp.has_lengths /\ SumInts(inp.lengths) # Len(inp.X)
    THEN [ok |-> FALSE, error |-> "AssertionError"]
    ELSE IF inp.has_lengths
    THEN SplitObservations(p, inp.X, inp.lengths, Split(inp.X, inp.lengths))
    ELSE SplitObservations(p, inp.X, <<Len(inp.X)>>, <<inp.X>>)

\* BaseHSMM.score: the outcome of the call
score(p, inp, by_sample) ==
    LET X_valid == to_observations(p, inp)
        log_likelihoods == compute_log_likelihood(p, X_valid)
    IN  IF ~X_valid.ok THEN [outcome |-> X_valid.error]
        ELSE [outcome |-> "ok",
              value |-> IF by_sample THEN log_likelihoods
                        ELSE <<ProdSeq(log_likelihoods)>>]

\* tensor.argmax over the states of one row: the first index of a largest entry
\* (a NaN counts as the largest)
ArgMax(row) ==
    IF HasNaNVec(row)
    THEN CHOOSE j \in 1..Len(row) :
            IsNaN(row[j]) /\ \A k \in 1..(j - 1) : ~IsNaN(row[k])
    ELSE CHOOSE j \in 1..Len(row) :
            /\ \A k \in 1..Len(row) : RLeq(row[k], row[j])
            /\ \A k \in 1..(j - 1) : RLt(row[k], row[j])

\* utils.DECODERS
DECODERS == {"viterbi", "map"}

\* a _viterbi that answers with the arg-max paths of the occupancy posterior
viterbi_as_map(p, X) ==
    [outcome |-> "ok",
     value |-> Vec(Len(X.log_probs), LAMBDA i :
                    Vec(X.lengths[i], LAMBDA t : ArgMax(compute_posteriors(p, X)[1][i][t])))]

\* BaseHSMM._viterbi
viterbi(p, X) == [outcome |-> "NotImplementedError"]

\* BaseHSMM._map: `gamma,_ = self._compute_posteriors(X)` unpacks the returned
\* tuple into two names, which raises ValueError unless it has two elements
map(p, X) ==
    LET post == compute_posteriors(p, X)
    IN  IF Len(post) # 2 THEN [outcome |-> "ValueError"]
        ELSE [outcome |-> "ok",
              value |-> Vec(Len(post[1]), LAMBDA i :
                            Vec(Len(post[1][i]), LAMBDA t : ArgMax(post[1][i][t])))]

\* BaseHSMM.predict: the outcome of the call
predict(p, inp, algorithm) ==
    IF algorithm \notin DECODERS THEN [outcome |-> "ValueError"]
    ELSE LET X_valid == to_observations(p, inp)
         IN  IF ~X_valid.ok THEN [outcome |-> X_valid.error]
             ELSE IF algorithm = "viterbi" THEN viterbi(p, X_valid)
             ELSE map(p, X_valid)

----------------------------------------------------------------------------
(* The property setters *)

\* torch.allclose(x, torch.ones(..)) for a log-domain x: |x - 1| <= 1e-8 + 1e-5,
\* i.e. exp(x) within [e^(1 - 1.001e-5), e^(1 + 1.001e-5)] = [2.718254.., 2.718309..].
\* The two rationals below lie inside that interval; no input of the model
\* falls between them and its ends.
CloseLo == R(271826, 100000)
CloseHi == R(271830, 100000)
allclose_ones(x) == RLeq(CloseLo, x) /\ RLeq(x, CloseHi)

\* the asserts of the pi setter: TRUE when the assignment goes through
pi_setter_accepts(p, logits) ==
    /\ Len(logits) = Len(p.pi)
    /\ allclose_ones(LogSumExp(logits))

\* the asserts of the A setter
A_setter_accepts(p, logits) ==
    /\ Len(logits) = Len(p.A)
    /\ \A j \in 1..Len(logits) : Len(logits[j]) = Len(p.A[j])
    /\ \A j \in 1..Len(logits) : allclose_ones(LogSumExp(logits[j]))
    /\ is_valid_A(logits)

\* the asserts of the D setter; logsumexp(1) has n_states entries and is
\* compared with a tensor of ones of shape (n_states, max_duration), which
\* broadcasts only when the two sizes agree
D_setter_accepts(p, logits) ==
    /\ Len(logits) = Len(p.D)
    /\ \A j \in 1..Len(logits) : Len(logits[j]) = Len(p.D[j])
    /\ (n_states = max_duration \/ n_states = 1 \/ max_duration = 1)
    /\ \A j \in 1..Len(logits) : allclose_ones(LogSumExp(logits[j]))

----------------------------------------------------------------------------
(* ConvergenceHandler.  A cell of score/delta is a float: [log, v] with v  *)
(* an extended rational; log = FALSE when v is the number itself, log =    *)
(* TRUE when the float is a log-likelihood held as exp of itself.  Rows    *)
(* and columns are indexed from 0 as in the code.                          *)

Lin(v) == [log |-> FALSE, v |-> v]
LogF(v) == [log |-> TRUE, v |-> v]
FNaN == Lin(NaN)

\* a - b on floats
FSub(a, b) ==
    IF IsNaN(a.v) \/ IsNaN(b.v) THEN FNaN
    ELSE IF a.log THEN LogF(RDiv(a.v, b.v))
    ELSE Lin(RSub(a.v, b.v))

\* a < b on floats (exp is increasing, so both kinds compare by v)
FLt(a, b) == RLt(a.v, b.v)

\* Python's index i into an axis of n entries: a negative i counts from the end
PyIndex(i, n) == IF i < 0 THEN i + n ELSE i

\* ConvergenceHandler.__init__
ConvergenceHandler(tol, max_iter, n_init, post_conv_iter, verbose) ==
    [tol |-> tol,
     verbose |-> verbose,
     post_conv_iter |-> post_conv_iter,
     max_iter |-> max_iter,
     score |-> [i \in 0..max_iter |-> [r \in 0..(n_init - 1) |-> FNaN]],
     delta |-> [i \in 0..max_iter |-> [r \in 0..(n_init - 1) |-> FNaN]],
     is_converged |-> FALSE]

\* ConvergenceHandler.push: the score first, then the delta read from the
\* updated score tensor
push(c, new_score, iter, rank) ==
    LET score1 == [c.score EXCEPT ![iter][rank] = new_score]
        prev == score1[PyIndex(iter - 1, c.max_iter + 1)][rank]
    IN  [c EXCEPT !.score = score1,
                  !.delta = [c.delta EXCEPT ![iter][rank] = FSub(new_score, prev)]]

\* the value converged() computes for is_converged; the slice
\* delta[conv_lag:iter, rank] holds the rows conv_lag .. iter-1
converged_value(c, iter, rank) ==
    LET conv_lag == iter - c.post_conv_iter
    IN  IF conv_lag < 0 THEN FALSE
        ELSE \A k \in conv_lag..(iter - 1) : FLt(c.delta[k][rank], c.tol)

\* ConvergenceHandler.converged: stores and returns is_converged
converged(c, iter, rank) == [c EXCEPT !.is_converged = converged_value(c, iter, rank)]

\* ConvergenceHandler.push_pull: the handler after the call; its is_converged
\* is the value returned
push_pull(c, new_score, iter, rank) == converged(push(c, new_score, iter, rank), iter, rank)

----------------------------------------------------------------------------
(* State *)

VARIABLES
    params,   \* self._params: [pi, A, D, pdf], the logits of the three Categoricals
    ret,      \* the last call on the model and its outcome
    post,     \* the tensors of the last _compute_posteriors call
    est,      \* the values computed by the last _estimate_model_params call,
              \* the posteriors it computed them from and the parameters the
              \* model held when it was called
    conv,     \* self.conv, the ConvergenceHandler of the running fit
    obs,      \* X_valid, the Observations of the running fit
    fit       \* the position and the local variables of the running fit

vars == <<params, ret, post, est, conv, obs, fit>>

\* BaseHSMM.sample_model_params: the parameter sets it may return
sample_model_params ==
    { [pi |-> Categorical(Tensor(1, LogVec(sampled_pi))).logits,
       A |-> Categorical(Tensor(2, LogMat(sample_A(probs_A)))).logits,
       D |-> Categorical(Tensor(2, LogMat(sampled_D))).logits,
       pdf |-> emission_pdf] :
        sampled_pi \in sample_probs_vec(n_states),
        probs_A \in sample_probs_mat(n_states, n_states),
        sampled_D \in sample_probs_mat(n_states, max_duration),
        emission_pdf \in EmissionPdfs }

\* the (X, lengths) arguments the calls are tried on
Inputs ==
    { [X |-> <<1, 2, 2>>, has_lengths |-> FALSE, lengths |-> <<>>],
      [X |-> <<2, 1, 1, 2>>, has_lengths |-> TRUE, lengths |-> <<3, 1>>],
      [X |-> <<2>>, has_lengths |-> FALSE, lengths |-> <<>>],
      [X |-> <<1, 2>>, has_lengths |-> TRUE, lengths |-> <<1, 1>>],
      [X |-> <<1, 2, 2, 1>>, has_lengths |-> TRUE, lengths |-> <<2, 2>>],
      [X |-> <<1, 2, 1>>, has_lengths |-> TRUE, lengths |-> <<2, 2>>],
      [X |-> <<1, 3>>, has_lengths |-> FALSE, lengths |-> <<>>] }

NoCall == [call |-> "none"]
NoPost == [set |-> FALSE]
NoEst == [set |-> FALSE]
NoConv == [set |-> FALSE]
NoObs == [ok |-> FALSE, error |-> "none"]
NoFit == [pc |-> "idle"]

\* BaseHSMM.__init__: the parameters are sampled, nothing has been called
Init ==
    /\ params \in sample_model_params
    /\ ret = NoCall
    /\ post = NoPost
    /\ est = NoEst
    /\ conv = NoConv
    /\ obs = NoObs
    /\ fit = NoFit

\* a call of score(X, lengths, by_sample)
Score ==
    \E inp \in Inputs, by_sample \in BOOLEAN :
        LET r == score(params, inp, by_sample)
        IN  /\ ret' = [call |-> "score", inp |-> inp, by_sample |-> by_sample, res |-> r]
            /\ post' = NoPost
            /\ UNCHANGED <<params, est, conv, obs, fit>>

\* the algorithm arguments predict is tried on
Algorithms == {"viterbi", "map", "beam"}

\* what is kept of the call r before the present one when it was a predict
\* with the same arguments
LastPredict(r, inp, algorithm) ==
    IF r.call = "predict" /\ r.inp = inp /\ r.algorithm = algorithm
    THEN [set |-> TRUE, res |-> r.res, before |-> r.before]
    ELSE [set |-> FALSE]

\* a predict whose answer may also be a path drawn at random
PredictSampled ==
    \E inp \in Inputs, algorithm \in Algorithms :
    \E r \in {predict(params, inp, algorithm),
              [outcome |-> "ok", value |-> <<Vec(Len(inp.X), LAMBDA t : 1)>>]} :
        /\ ret' = [call |-> "predict", inp |-> inp, algorithm |-> algorithm, res |-> r,
                   before |-> params, prev |-> LastPredict(ret, inp, algorithm)]
        /\ post' = NoPost
        /\ UNCHANGED <<params, est, conv, obs, fit>>

\* a call of predict(X, algorithm, lengths); ret keeps the parameters the call
\* started from and, when the call before it was a predict with the same
\* arguments, the outcome of that call
Predict ==
    \E inp \in Inputs, algorithm \in Algorithms :
        LET r == predict(params, inp, algorithm)
        IN  /\ ret' = [call |-> "predict", inp |-> inp, algorithm |-> algorithm, res |-> r,
                       before |-> params, prev |-> LastPredict(ret, inp, algorithm)]
            /\ post' = NoPost
            /\ UNCHANGED <<params, est, conv, obs, fit>>

\* a call of to_observations(X, lengths)
ToObservations ==
    \E inp \in Inputs :
        /\ ret' = [call |-> "to_observations", inp |-> inp,
                   res |-> to_observations(params, inp)]
        /\ post' = NoPost
        /\ UNCHANGED <<params, est, conv, obs, fit>>

\* a call of _compute_posteriors(X) on a valid batch; post keeps the
\* returned tuple and the two lattices it was computed from
ComputePosteriors ==
    \E inp \in Inputs :
        LET X == to_observations(params, inp)
        IN  /\ X.ok
            /\ ret' = [call |-> "_compute_posteriors", inp |-> inp]
            /\ post' = [set |-> TRUE,
                        X |-> X,
                        log_alpha |-> Forward(params, X),
                        log_beta |-> Backward(params, X),
                        result |-> compute_posteriors(params, X)]
            /\ UNCHANGED <<params, est, conv, obs, fit>>

\* a vector whose probabilities sum to 1264/465 = 2.71828 (log-sum 1)
EVec(n) == Vec(n, LAMBDA i : R(1264, 465 * n))

\* the values the pi setter is tried on
PiCandidates ==
    sample_probs_vec(n_states)
        \cup {EVec(n_states), EVec(n_states + 1), Vec(n_states, LAMBDA i : R(1, 4))}

\* the values the A setter is tried on
ACandidates ==
    { sample_A(Vec(n_states, LAMBDA j : Vec(n_states, LAMBDA k : R(1, n_states)))),
      Vec(n_states, LAMBDA j : Vec(n_states, LAMBDA k : IF j = k THEN Zero ELSE R(1264, 465 * (n_states - 1)))),
      Vec(n_states, LAMBDA j : EVec(n_states)),
      Vec(n_states, LAMBDA j : Vec(n_states, LAMBDA k : R(1, n_states))) }

\* the values the D setter is tried on
DCandidates ==
    { Vec(n_states, LAMBDA j : Vec(max_duration, LAMBDA d : R(1, max_duration))),
      Vec(n_states, LAMBDA j : EVec(max_duration)),
      Vec(n_states, LAMBDA j : Vec(max_duration, LAMBDA d : R(1, 4))),
      Vec(n_states, LAMBDA j : EVec(max_duration + 1)) }

\* model.pi = logits
SetPi ==
    \E logits \in PiCandidates :
        LET acc == pi_setter_accepts(params, logits)
        IN  /\ ret' = [call |-> "set_pi", arg |-> logits,
                       res |-> [outcome |-> IF acc THEN "ok" ELSE "AssertionError"]]
            /\ params' = IF acc THEN [params EXCEPT !.pi = logits] ELSE params
            /\ post' = NoPost
            /\ UNCHANGED <<est, conv, obs, fit>>

\* model.A = logits
SetA ==
    \E logits \in ACandidates :
        LET acc == A_setter_accepts(params, logits)
        IN  /\ ret' = [call |-> "set_A", arg |-> logits,
                       res |-> [outcome |-> IF acc THEN "ok" ELSE "AssertionError"]]
            /\ params' = IF acc THEN [params EXCEPT !.A = logits] ELSE params
            /\ post' = NoPost
            /\ UNCHANGED <<est, conv, obs, fit>>

\* model.D = logits
SetD ==
    \E logits \in DCandidates :
        LET acc == D_setter_accepts(params, logits)
        IN  /\ ret' = [call |-> "set_D", arg |-> logits,
                       res |-> [outcome |-> IF acc THEN "ok" ELSE "AssertionError"]]
            /\ params' = IF acc THEN [params EXCEPT !.D = logits] ELSE params
            /\ post' = NoPost
            /\ UNCHANGED <<est, conv, obs, fit>>

Next == Score \/ Predict \/ ComputePosteriors \/ ToObservations

\* the model instance under arbitrary calls of its query interface
Spec == Init /\ [][Next]_vars

NextSet == SetPi \/ SetA \/ SetD

\* the model instance under arbitrary assignments to pi, A and D (kept apart
\* from the queries: the lattices of an instance whose parameters sum to e
\* leave the range of the checker's integers)
SpecSet == Init /\ [][NextSet]_vars

----------------------------------------------------------------------------
(* BaseHSMM.fit.  The record fit holds the position in the method (pc) and  *)
(* its local variables; one action is one stretch of the method between    *)
(* two loop heads.                                                         *)

\* the largest max_iter and n_init a call of fit is tried with
MaxIter == 1
MaxInit == 2

\* the (X, lengths) arguments fit is tried on
FitInputs ==
    { [X |-> <<1, 2, 2>>, has_lengths |-> FALSE, lengths |-> <<>>],
      [X |-> <<2>>, has_lengths |-> FALSE, lengths |-> <<>>],
      [X |-> <<2, 1, 1, 2>>, has_lengths |-> TRUE, lengths |-> <<3, 1>>],
      [X |-> <<1, 2, 2, 1>>, has_lengths |-> TRUE, lengths |-> <<2, 2>>],
      [X |-> <<1, 2, 1>>, has_lengths |-> TRUE, lengths |-> <<2, 2>>] }

\* tol = 0.01, the default of fit, as a log-domain float: e^0.01 = 1.0100501..
\* (no ratio of two likelihoods of the model lies between the two numbers)
DefaultTol == LogF(R(101005, 100000))

\* tensor.sum() of the per-row scores, a log-domain float
TotalLogLikelihood(p, X) == LogF(ProdSeq(compute_log_likelihood(p, X)))

\* the head of `for rank in range(n_init)` reached with the value rank
ForRank(f, rank) ==
    IF rank < f.n_init THEN [f EXCEPT !.pc = "rank", !.rank = rank, !.iter = 0]
    ELSE [f EXCEPT !.pc = "done"]

\* the head of `for iter in range(1, max_iter + 1)` reached with the value iter
ForIter(f, c, iter) ==
    IF iter <= c.max_iter THEN [f EXCEPT !.pc = "iter", !.iter = iter]
    ELSE ForRank(f, f.rank + 1)

\* fit(X, tol, max_iter, n_init, post_conv_iter, ignore_conv, verbose, lengths)
\* up to the first loop head (lines 189-199)
FitCall ==
    /\ fit.pc = "idle"
    /\ \E inp \in FitInputs, max_iter \in 0..MaxIter, n_init \in 1..MaxInit,
          post_conv_iter \in 0..1, ignore_conv \in BOOLEAN, verbose \in BOOLEAN :
        LET X_valid == to_observations(params, inp)
            f == [pc |-> "idle", inp |-> inp, n_init |-> n_init,
                  ignore_conv |-> ignore_conv, verbose |-> verbose,
                  rank |-> 0, iter |-> 0]
        IN  IF ~X_valid.ok
            THEN /\ fit' = [f EXCEPT !.pc = "raised"]
                 /\ ret' = [call |-> "fit", res |-> [outcome |-> X_valid.error]]
                 /\ UNCHANGED <<conv, obs>>
            ELSE /\ obs' = X_valid
                 /\ conv' = ConvergenceHandler(DefaultTol, max_iter, n_init,
                                               post_conv_iter, verbose)
                 /\ fit' = ForRank(f, 0)
                 /\ ret' = [call |-> "fit", res |-> [outcome |-> "running"]]
    /\ post' = NoPost
    /\ UNCHANGED <<params, est>>

\* the start of a restart (lines 201-205): new parameters for rank > 0, the
\* baseline score pushed at iteration 0; what push_pull returns is not used
FitRestart ==
    /\ fit.pc = "rank"
    /\ \E p \in (IF fit.rank > 0 THEN sample_model_params ELSE {params}) :
        /\ params' = p
        /\ conv' = push_pull(conv, TotalLogLikelihood(p, obs), 0, fit.rank)
        /\ fit' = ForIter(fit, conv, 1)
    /\ UNCHANGED <<ret, post, est, obs>>

\* lines 365-368 of _estimate_model_params: the three Categoricals built
\* from the new values, in the order of the dict
NewCategoricals(new) ==
    [pi |-> Categorical(new.pi), A |-> Categorical(new.A), D |-> Categorical(new.D)]

\* lines 208-216 of an iteration once the new parameters p are installed:
\* the emissions are mapped again (tensors of the dimensions they had, which
\* depend on the lengths alone), the score is pushed, the loop goes on or breaks
FitInstall(p) ==
    \E X_valid \in {[obs EXCEPT !.log_probs = MapEmissions(p.pdf, obs.nested_sequence)]} :
    \E c \in {push_pull(conv, TotalLogLikelihood(p, X_valid), fit.iter, fit.rank)} :
        /\ params' = p
        /\ obs' = X_valid
        /\ conv' = c
        /\ fit' = IF c.is_converged /\ fit.verbose /\ ~fit.ignore_conv
                  THEN ForRank(fit, fit.rank + 1)
                  ELSE ForIter(fit, conv, fit.iter + 1)
        /\ UNCHANGED ret

\* one iteration of the EM loop (lines 206-216); building a Categorical may
\* raise, which ends fit
FitIterate ==
    /\ fit.pc = "iter"
    /\ \E new_pdf \in EmissionPdfs :
       \E new \in {estimate_model_params(params, obs, new_pdf)} :
       \E cat \in {NewCategoricals(new)} :
        /\ est' = [set |-> TRUE, pi |-> new.pi, A |-> new.A, D |-> new.D,
                   pdf |-> new.pdf, rank |-> fit.rank, iter |-> fit.iter,
                   posteriors |-> compute_posteriors(params, obs),
                   before |-> params]
        /\ IF cat.pi.ok /\ cat.A.ok /\ cat.D.ok
           THEN FitInstall([pi |-> cat.pi.logits, A |-> cat.A.logits,
                            D |-> cat.D.logits, pdf |-> new_pdf])
           ELSE /\ fit' = [fit EXCEPT !.pc = "raised"]
                /\ ret' = [call |-> "fit", res |-> [outcome |-> "ValueError"]]
                /\ UNCHANGED <<params, obs, conv>>
    /\ UNCHANGED post

\* the loops are over (lines 218-221): fit returns the model
FitReturn ==
    /\ fit.pc = "done"
    /\ fit' = [fit EXCEPT !.pc = "returned"]
    /\ ret' = [call |-> "fit", res |-> [outcome |-> "ok"]]
    /\ UNCHANGED <<params, post, est, conv, obs>>

NextFit == FitCall \/ FitRestart \/ FitIterate \/ FitReturn

\* one call of fit on a freshly constructed model
SpecFit == Init /\ [][NextFit]_vars

----------------------------------------------------------------------------
(* The ConvergenceHandler on its own: one restart column is filled in the  *)
(* order fit fills it, and converged() is asked at any iteration.          *)

\* the largest max_iter and post_conv_iter a handler is built with
MaxConvIter == 3
MaxPostConv == 2

\* tol = 0.01 and the scores pushed, as plain numbers
ConvTol == Lin(R(1, 100))
ConvScores == {Lin(Zero), Lin(R(3, 1)), Lin(R(3005, 1000)), Lin(R(3007, 1000))}

NoParams == [set |-> FALSE]

\* ConvergenceHandler(tol, max_iter, n_init, post_conv_iter) and the restart
\* that is going to be recorded
InitConv ==
    /\ \E max_iter \in 0..MaxConvIter, n_init \in 1..MaxInit,
          post_conv_iter \in 0..MaxPostConv :
        /\ conv = ConvergenceHandler(ConvTol, max_iter, n_init, post_conv_iter, TRUE)
        /\ \E rank \in 0..(n_init - 1) :
            fit = [pc |-> "handler", n_init |-> n_init, rank |-> rank, iter |-> 0]
    /\ params = NoParams
    /\ ret = NoCall
    /\ post = NoPost
    /\ est = NoEst
    /\ obs = NoObs

\* conv.push_pull(new_score, iter, rank) for the next iteration of the restart
ConvPushPull ==
    /\ fit.pc = "handler"
    /\ fit.iter <= conv.max_iter
    /\ \E new_score \in ConvScores :
       \E c \in {push_pull(conv, new_score, fit.iter, fit.rank)} :
        /\ conv' = c
        /\ ret' = [call |-> "push_pull", new_score |-> new_score, iter |-> fit.iter,
                   rank |-> fit.rank, res |-> c.is_converged]
    /\ fit' = [fit EXCEPT !.iter = fit.iter + 1]
    /\ UNCHANGED <<params, post, est, obs>>

\* conv.converged(iter, rank) at an iteration already recorded
ConvConverged ==
    /\ fit.pc = "handler"
    /\ \E iter \in 0..(fit.iter - 1) :
       \E c \in {converged(conv, iter, fit.rank)} :
        /\ conv' = c
        /\ ret' = [call |-> "converged", iter |-> iter, rank |-> fit.rank,
                   res |-> c.is_converged]
    /\ UNCHANGED <<params, post, est, obs, fit>>

NextConv == ConvPushPull \/ ConvConverged

SpecConv == InitConv /\ [][NextConv]_vars

----------------------------------------------------------------------------
(* Properties *)

\* C1: converged(iter, rank) returns true if and only if iter >= post_conv_iter
\* and each of the post_conv_iter most recent deltas of the restart, the one
\* recorded at iter included, is below tol.
C1_TrailingWindowIncludesIter ==
    ret.call \in {"push_pull", "converged"} =>
        (ret.res <=>
            /\ ret.iter >= conv.post_conv_iter
            /\ \A k \in (ret.iter - conv.post_conv_iter + 1)..ret.iter :
                    FLt(conv.delta[k][ret.rank], conv.tol))

\* C2: once the handler has reported convergence at an iteration of a restart
\* and ignore_conv is false, fit does not stand at the head of a further
\* iteration of that restart, whatever the other options are.
C2_NoIterationAfterConvergence ==
    fit.pc = "iter" => ~(conv.is_converged /\ ~fit.ignore_conv)

\* C3: for every sequence, logsumexp over (j, d) of alpha[0, j, d] equals
\* logsumexp over (j, d) of alpha[0, j, d] + beta[0, j, d].
C3_ForwardEqualsForwardBackward ==
    post.set =>
        \A i \in 1..Len(post.log_alpha) :
            LogSumExp(Flatten(post.log_alpha[i][1])) =
                LogSumExp(Flatten(
                    Vec(n_states, LAMBDA j :
                        Vec(max_duration, LAMBDA d :
                            RMul(post.log_alpha[i][1][j][d], post.log_beta[i][1][j][d])))))

\* C4: score with by_sample=True returns one value per sequence, the i-th the
\* logsumexp of the flattened alpha_i[0]; with by_sample=False it returns the
\* single sum of these values.
C4_ScorePerSequence ==
    (ret.call = "score" /\ ret.res.outcome = "ok") =>
        LET X == to_observations(params, ret.inp)
            per_sequence == Vec(X.n_sequences, LAMBDA i :
                                LogSumExp(Flatten(Forward(params, X)[i][1])))
        IN  IF ret.by_sample
            THEN /\ Len(ret.res.value) = X.n_sequences
                 /\ \A i \in 1..X.n_sequences : ret.res.value[i] = per_sequence[i]
            ELSE ret.res.value = <<ProdSeq(per_sequence)>>

\* C5: predict with algorithm 'map' on a valid batch returns one path per
\* sequence, path i of lengths[i] entries, its entry at t the arg-max over the
\* states of gamma_i[t] as _compute_posteriors gives it.
C5_MapReturnsArgmaxPaths ==
    (ret.call = "predict" /\ ret.algorithm = "map"
        /\ to_observations(params, ret.inp).ok) =>
        /\ ret.res.outcome = "ok"
        /\ LET X == to_observations(params, ret.inp)
               log_gamma == compute_posteriors(params, X)[1]
           IN  /\ Len(ret.res.value) = X.n_sequences
               /\ \A i \in 1..X.n_sequences :
                    /\ Len(ret.res.value[i]) = X.lengths[i]
                    /\ \A t \in 1..X.lengths[i] :
                            ret.res.value[i][t] = ArgMax(log_gamma[i][t])

\* C6: every result of _estimate_model_params has a pi that is a vector of
\* n_states entries with logsumexp 0, and rows of A and of D that log-sum to 0.
C6_EstimateKeepsInvariants ==
    est.set =>
        /\ est.pi.ndim = 1
        /\ Len(est.pi.val) = n_states
        /\ LogSumExp(est.pi.val) = One
        /\ \A j \in States : LogSumExp(est.A.val[j]) = One
        /\ \A j \in States : LogSumExp(est.D.val[j]) = One

\* C7: the diagonal of A is minus infinity in the sampled parameters, after
\* every re-sampling of a restart and in every A re-estimated from xi.
C7_DiagonalOfAIsMinusInfinity ==
    /\ \A j \in States : params.A[j][j] = Zero
    /\ est.set => \A j \in States : est.A.val[j][j] = Zero

\* C8: a setter accepts a value of the stored shape if and only if the value
\* satisfies the invariant of its parameter: logsumexp 0 for pi, rows
\* log-summing to 0 for A and D, and a minus-infinity diagonal for A.
C8_SettersAcceptExactlyValid ==
    /\ (ret.call = "set_pi" /\ Len(ret.arg) = n_states) =>
            (ret.res.outcome = "ok" <=> LogSumExp(ret.arg) = One)
    /\ (ret.call = "set_A" /\ Len(ret.arg) = n_states
            /\ \A j \in States : Len(ret.arg[j]) = n_states) =>
            (ret.res.outcome = "ok" <=>
                /\ \A j \in States : LogSumExp(ret.arg[j]) = One
                /\ \A j \in States : ret.arg[j][j] = Zero)
    /\ (ret.call = "set_D" /\ Len(ret.arg) = n_states
            /\ \A j \in States : Len(ret.arg[j]) = max_duration) =>
            (ret.res.outcome = "ok" <=>
                \A j \in States : LogSumExp(ret.arg[j]) = One)

C10_PushRecordsScoreAndDelta ==
    ret.call = "push_pull" =>
        /\ conv.score[ret.iter][ret.rank] = ret.new_score
        /\ IF ret.iter >= 1
           THEN conv.delta[ret.iter][ret.rank] =
                    FSub(ret.new_score, conv.score[ret.iter - 1][ret.rank])
           ELSE IsNaN(conv.delta[0][ret.rank].v)

\* C11: a fit on a valid batch does not raise, and when it has returned, every
\* restart holds a score at iteration 0 and at each of the max_iter iterations,
\* except after an iteration at which the handler declared convergence.
C11_FitRunsToMaxIterAndReturns ==
    /\ fit.pc = "raised" => ~obs.ok
    /\ fit.pc = "returned" =>
            \A r \in 0..(fit.n_init - 1) : \A i \in 0..conv.max_iter :
                IsNaN(conv.score[i][r].v) =>
                    \E k \in 0..(i - 1) : converged_value(conv, k, r)

C14_LengthsPartitionTheSamples ==
    ret.call = "to_observations" =>
        /\ (ret.inp.has_lengths /\ SumInts(ret.inp.lengths) # Len(ret.inp.X)) =>
                (~ret.res.ok /\ ret.res.error = "AssertionError")
        /\ ret.res.ok =>
                LET seq_lengths == IF ret.inp.has_lengths THEN ret.inp.lengths
                                   ELSE <<Len(ret.inp.X)>>
                IN  /\ ret.res.n_sequences = Len(seq_lengths)
                    /\ ret.res.lengths = seq_lengths
                    /\ Len(ret.res.nested_sequence) = Len(seq_lengths)
                    /\ \A i \in 1..Len(seq_lengths) :
                            Len(ret.res.nested_sequence[i]) = seq_lengths[i]
                    /\ Concat(ret.res.nested_sequence) = ret.inp.X

C14_Witness ==
    /\ ret.call = "to_observations"
    /\ ret.inp.has_lengths
    /\ SumInts(ret.inp.lengths) # Len(ret.inp.X)
    /\ check_constraints(ret.inp.X)
    /\ ~ret.res.ok

XiDestination(p, e, alpha, beta, t, j, k) ==
    RMul(RMul(RMul(p.A[j][k], alpha[t][j][1]), e[t + 1][k]),
         LogSumExp(Vec(max_duration, LAMBDA d : RMul(p.D[k][d], beta[t + 1][k][d]))))

XiDestinationTotal(p, e, alpha, beta, t) ==
    SumSeq(Flatten(Vec(n_states, LAMBDA j :
        Vec(n_states, LAMBDA k : XiDestination(p, e, alpha, beta, t, j, k)))))

\* C16: for every sequence and every t in 0..T-2, xi[t,j,k] is
\* A[j,k] + alpha[t,j,0] + e[t+1,k] + logsumexp_d(D[k,d] + beta[t+1,k,d])
\* normalised jointly over (j,k).
C16_XiUsesDestinationState ==
    post.set =>
        \A i \in 1..post.X.n_sequences :
            LET e == log_prob(params.pdf, post.X.nested_sequence[i])
                xi == post.result[2][i]
            IN  /\ Len(xi) = post.X.lengths[i] - 1
                /\ \A t \in 1..Len(xi) : \A j \in States : \A k \in States :
                        xi[t][j][k] =
                            RDiv(XiDestination(params, e, post.log_alpha[i],
                                               post.log_beta[i], t, j, k),
                                 XiDestinationTotal(params, e, post.log_alpha[i],
                                                    post.log_beta[i], t))

\* C17: for every sequence, every t in 0..T-2 and every state j, the
\* probabilities exp(eta[t,j,d]) sum to 1 over the durations d.
C17_EtaNormalizedOverDurations ==
    post.set =>
        \A i \in 1..post.X.n_sequences :
            \A t \in 1..Len(post.result[3][i]) : \A j \in States :
                SumSeq(ExpVec(post.result[3][i][t][j])) = One

RECURSIVE FlowGamma(_, _, _)
\* the occupancy of C19 at step t, on probabilities: at the last step the
\* forward mass of every state summed over the durations and normalised, before
\* it the occupancy of the next step plus what leaves the state minus what
\* enters it
FlowGamma(alpha, xi_real, t) ==
    IF t = Len(alpha)
    THEN Vec(n_states, LAMBDA j : RDiv(SumSeq(alpha[t][j]), SumSeq(Flatten(alpha[t]))))
    ELSE LET nxt == FlowGamma(alpha, xi_real, t + 1)
         IN  Vec(n_states, LAMBDA j :
                RAdd(nxt[j], RSub(SumSeq(xi_real[t][j]), SumSeq(Col(xi_real[t], j)))))

\* C19: for every sequence, gamma[T-1,j] is the logarithm of the normalised sum
\* over d of the forward mass alpha[T-1,j,d], and for t < T-1 gamma[t,j] is the
\* logarithm of gamma[t+1,j] + sum over k of (xi[t,j,k] - xi[t,k,j]), taken on
\* probabilities.
C19_GammaIsFlowRecursion ==
    post.set =>
        \A i \in 1..post.X.n_sequences :
            /\ Len(post.result[1][i]) = post.X.lengths[i]
            /\ \A t \in 1..post.X.lengths[i] : \A j \in States :
                    post.result[1][i][t][j] =
                        Log(FlowGamma(post.log_alpha[i], ExpMat3(post.result[2][i]), t)[j])

C19_Witness ==
    /\ post.set
    /\ \E i \in 1..post.X.n_sequences :
        /\ post.X.lengths[i] >= 3
        /\ \A t \in 1..post.X.lengths[i] : ~HasNaNVec(post.result[1][i][t])
        /\ post.result[1][i][1] # post.result[1][i][2]
        /\ post.result[1][i][2] # post.result[1][i][3]

\* transSum[j] of C20 at step t: logsumexp_k(alpha[t-1,k,0] + A[k,j]) + e[t,j]
TransSum(p, e, alpha, t, j) ==
    RMul(SumSeq(Vec(n_states, LAMBDA k : RMul(alpha[t - 1][k][1], p.A[k][j]))), e[t][j])

\* C20: for every sequence of length T >= 1, with e its emission
\* log-probabilities [time, states]: alpha[0,j,d] = D[j,d] + pi[j] + e[0,j];
\* for t >= 1, alpha[t,j,Dmax-1] = transSum[j] + D[j,Dmax-1] and, for
\* d < Dmax-1, alpha[t,j,d] = logaddexp(alpha[t-1,j,d+1] + e[t,j], transSum[j] + D[j,d]).
C20_ForwardRecursion ==
    post.set =>
        \A i \in 1..post.X.n_sequences :
            LET e == log_prob(params.pdf, post.X.nested_sequence[i])
                alpha == post.log_alpha[i]
            IN  /\ Len(alpha) = post.X.lengths[i]
                /\ \A j \in States : \A d \in Durations :
                        alpha[1][j][d] = RMul(RMul(params.D[j][d], params.pi[j]), e[1][j])
                /\ \A t \in 2..Len(alpha) : \A j \in States :
                        /\ alpha[t][j][max_duration] =
                                RMul(TransSum(params, e, alpha, t, j), params.D[j][max_duration])
                        /\ \A d \in 1..(max_duration - 1) :
                                alpha[t][j][d] =
                                    RAdd(RMul(alpha[t - 1][j][d + 1], e[t][j]),
                                         RMul(TransSum(params, e, alpha, t, j), params.D[j][d]))

\* the sum over the sequences i of exp(gamma_i[0, j])
FirstOccupancy(log_gamma, j) ==
    SumSeq(Vec(Len(log_gamma), LAMBDA i : Exp(log_gamma[i][1][j])))

\* the sum over the sequences and their time steps of exp(x[t, j, k]), x the
\* xi or the eta of the batch
ExpectedCount(x, j, k) ==
    SumSeq(Vec(Len(x), LAMBDA i :
        SumSeq(Vec(Len(x[i]), LAMBDA t : Exp(x[i][t][j][k])))))

\* C18: the pi that _estimate_model_params computes is a vector over the
\* states, its entry j the first-timestep occupancy of j summed over the
\* sequences and normalised; row j of its A is the sum of exp(xi[t,j,k]) over t
\* and the sequences, normalised over k; row j of its D is the sum of
\* exp(eta[t,j,d]) over t and the sequences, normalised over d.
C18_EstimateFromPosteriors ==
    est.set =>
        /\ est.pi.ndim = 1
        /\ Len(est.pi.val) = n_states
        /\ \A j \in States :
                est.pi.val[j] =
                    RDiv(FirstOccupancy(est.posteriors[1], j),
                         SumSeq(Vec(n_states, LAMBDA k : FirstOccupancy(est.posteriors[1], k))))
        /\ \A j \in States : \A k \in States :
                est.A.val[j][k] =
                    RDiv(ExpectedCount(est.posteriors[2], j, k),
                         SumSeq(Vec(n_states, LAMBDA l : ExpectedCount(est.posteriors[2], j, l))))
        /\ \A j \in States : \A d \in Durations :
                est.D.val[j][d] =
                    RDiv(ExpectedCount(est.posteriors[3], j, d),
                         SumSeq(Vec(max_duration, LAMBDA l : ExpectedCount(est.posteriors[3], j, l))))

\* C21: the four new values of an EM iteration are computed from the posteriors
\* of the parameter set the model held before the iteration, and once they are
\* computed the stored set is replaced by them as a whole.
C21_ParametersReplacedWholesale ==
    est.set =>
        /\ est.posteriors = compute_posteriors(est.before, obs)
        /\ [pi |-> est.pi, A |-> est.A, D |-> est.D, pdf |-> est.pdf] =
                UnpackPosteriors(est.posteriors, est.pdf)
        /\ params = [pi |-> Categorical(est.pi).logits,
                     A |-> Categorical(est.A).logits,
                     D |-> Categorical(est.D).logits,
                     pdf |-> est.pdf]

\* the batch with its emission log-likelihoods mapped again under the
\* emission parameters pdf
FreshObservations(X, pdf) == [X EXCEPT !.log_probs = MapEmissions(pdf, X.nested_sequence)]

\* C22: the baseline score fit has pushed at iteration 0 of a restart, the
\* restarts of rank > 0 included, is the total log-likelihood of emission
\* log-likelihoods evaluated under the emission parameters of that restart.
C22_BaselineUsesCurrentEmissions ==
    ((fit.pc = "iter" /\ fit.iter = 1)
        \/ (fit.pc \in {"done", "returned"} /\ conv.max_iter = 0)) =>
        conv.score[0][fit.rank] =
            TotalLogLikelihood(params, FreshObservations(obs, params.pdf))

\* C23: for every sequence and every t, the occupancy gamma[t] is a probability
\* distribution over the states: no entry of the returned log-gamma is NaN,
\* every probability lies in [0, 1] and the probabilities sum to 1.
C23_GammaIsDistribution ==
    post.set =>
        \A i \in 1..post.X.n_sequences : \A t \in 1..post.X.lengths[i] :
            /\ ~HasNaNVec(post.result[1][i][t])
            /\ \A j \in States :
                    /\ RLeq(Zero, Exp(post.result[1][i][t][j]))
                    /\ RLeq(Exp(post.result[1][i][t][j]), One)
            /\ SumSeq(ExpVec(post.result[1][i][t])) = One


\* the batches score is tried on after assignments: a single observation,
\* whose scores stay within the range of the integers
ShortInputs == { inp \in Inputs : Len(inp.X) = 1 }

\* a call of score(X, lengths, by_sample) on an instance that may hold assigned
\* parameters
ScoreAssigned ==
    \E inp \in ShortInputs, by_sample \in BOOLEAN :
        LET r == score(params, inp, by_sample)
        IN  /\ ret' = [call |-> "score", inp |-> inp, by_sample |-> by_sample, res |-> r]
            /\ post' = NoPost
            /\ UNCHANGED <<params, est, conv, obs, fit>>

NextSetScore == SetA \/ SetD \/ ScoreAssigned

\* the model instance queried by score between assignments to A and D
SpecSetScore == Init /\ [][NextSetScore]_vars

\* two batches of the same lengths whose sequences start with the same observation
SameFirstObservations(X1, X2) ==
    /\ X1.ok /\ X2.ok
    /\ X1.lengths = X2.lengths
    /\ \A i \in 1..X1.n_sequences : X1.nested_sequence[i][1] = X2.nested_sequence[i][1]

\* batches that differ from one of Inputs in later observations only
LaterVariants ==
    { [X |-> <<1, 1, 2>>, has_lengths |-> FALSE, lengths |-> <<>>],
      [X |-> <<1, 1, 2, 2>>, has_lengths |-> TRUE, lengths |-> <<2, 2>>],
      [X |-> <<2, 2, 1, 2>>, has_lengths |-> TRUE, lengths |-> <<3, 1>>] }

\* C24: the scores depend only on pi and on the emission log-probabilities of
\* the first observation of each sequence: a model that agrees with the scored
\* one on pi and the emission parameters but has another A and D, scoring a
\* batch of the same lengths with the same first observations, returns the
\* same scores.
C24_ScoreDependsOnPiAndFirstEmission ==
    (ret.call = "score" /\ ret.res.outcome = "ok") =>
        \A q \in sample_model_params : \A inp2 \in Inputs \cup LaterVariants :
            LET p2 == [params EXCEPT !.A = q.A, !.D = q.D]
            IN  SameFirstObservations(to_observations(params, ret.inp),
                                      to_observations(p2, inp2)) =>
                    score(p2, inp2, ret.by_sample) = ret.res


\* C25: with post_conv_iter = 0 the handler reports convergence at every
\* iteration, iteration 0 included, whatever the scores; and a fit with
\* verbose = True and ignore_conv = False then performs exactly one EM
\* iteration in every restart and returns.
C25_ZeroPostConvOneIteration ==
    /\ (ret.call \in {"push_pull", "converged"} /\ conv.post_conv_iter = 0) => ret.res
    /\ ((fit.pc \in {"iter", "done", "returned"} \/ (fit.pc = "raised" /\ obs.ok))
            /\ conv.post_conv_iter = 0) => conv.is_converged
    /\ (fit.pc \in {"returned", "raised"} /\ obs.ok /\ conv.post_conv_iter = 0
            /\ fit.verbose /\ ~fit.ignore_conv /\ conv.max_iter >= 1) =>
            /\ fit.pc = "returned"
            /\ \A r \in 0..(fit.n_init - 1) :
                    /\ ~IsNaN(conv.score[1][r].v)
                    /\ \A i \in 2..conv.max_iter : IsNaN(conv.score[i][r].v)

=============================================================================
